---- MODULE Spec2Model ----
(***************************************************************************)
(* Model of the help renderer of plugin-help (src/src/index.ts): the       *)
(* column layout engine Help.renderList (compact and stacked mode) and the *)
(* article renderers Help.renderMarkdown and Help.renderScreen.            *)
(*                                                                         *)
(* A JavaScript string is a sequence of one-character strings.  The escape *)
(* character U+001B is the element ESC, and the lodash interpolation       *)
(* "<%= config.bin %>" is the single element TPL.  A value that is         *)
(* undefined is the one-element sequence Absent.  A call that throws       *)
(* returns the one-element sequence ERR.                                   *)
(***************************************************************************)
EXTENDS Integers, Sequences, FiniteSets, TLC

\* ------------------------------------------------------------------ bounds
MaxRows == 2
MaxWidth == 8
MaxSections == 2

\* ------------------------------------------------------- program constants
MarkdownMaxWidth == 100
MultilineThreshold == 4
MultilineIndent == 4
MultilineMargin == 2
ColumnGap == 2
SectionMargin == 2

\* ------------------------------------------------------------ characters
ESC == "ESC"
TPL == "<%= config.bin %>"
NL == "\n"
SP == " "
Absent == << "undefined" >>
ERR == << "RangeError" >>
Digits == {"0", "1", "2", "3", "4", "5", "6", "7", "8", "9"}

\* config.bin, the value the interpolation TPL is replaced by
ConfigBin == << "c", "l", "i" >>

\* String.prototype.trim's white space, over the model's alphabet
IsWhitespace(c) == c \in {SP, NL}

\* string-width ignores control characters
IsControl(c) == c \in {NL, ESC}

\* the characters of an interpolation that has not been substituted
TplText ==
  << "<", "%", "=", " ", "c", "o", "n", "f", "i", "g", ".", "b", "i", "n",
     " ", "%", ">" >>

\* the columns one element of a string takes
CharWidth(c) ==
  IF IsControl(c) THEN 0 ELSE IF c = TPL THEN Len(TplText) ELSE 1

DigitValue(c) ==
  CASE c = "0" -> 0 [] c = "1" -> 1 [] c = "2" -> 2 [] c = "3" -> 3
    [] c = "4" -> 4 [] c = "5" -> 5 [] c = "6" -> 6 [] c = "7" -> 7
    [] c = "8" -> 8 [] c = "9" -> 9

\* ------------------------------------------------------- string helpers
Last(s) == s[Len(s)]

Front(s) == SubSeq(s, 1, Len(s) - 1)

\* rows[rows.length - 1] += t
AppendToLast(rows, t) == [rows EXCEPT ![Len(rows)] = @ \o t]

\* The element of a set of one element.  In Only({e(v) : v \in {d}}) the value
\* of d is computed once, before e is: a statement and the statements after it.
Only(S) == CHOOSE x \in S : TRUE

\* the least and the greatest element of a set of numbers that is not empty
Least(S) == CHOOSE i \in S : \A j \in S : i <= j

Greatest(S) == CHOOSE i \in S : \A j \in S : j <= i

\* the places of s that do not hold white space
Inked(s) == {i \in DOMAIN s : ~IsWhitespace(s[i])}

\* String.prototype.trim: what lies between the first and the last character
\* that is not white space
Trim(s) ==
  IF Inked(s) = {} THEN <<>> ELSE SubSeq(s, Least(Inked(s)), Greatest(Inked(s)))

\* the elements of s at the places in keep, in their order
KeepAt(s, keep) ==
  [k \in 1..Cardinality(keep) |->
     s[CHOOSE i \in keep : Cardinality({j \in keep : j <= i}) = k]]

\* the parts from lo to hi put one after the other
RECURSIVE Concat(_, _, _)
Concat(parts, lo, hi) ==
  IF lo > hi THEN <<>>
  ELSE IF lo = hi THEN parts[lo]
  ELSE Concat(parts, lo, (lo + hi) \div 2)
       \o Concat(parts, (lo + hi) \div 2 + 1, hi)

\* String.prototype.split(sep), sep a single character: the parts between
\* the places of sep
Split(s, sep) ==
  LET at == {i \in DOMAIN s : s[i] = sep}
      n == Cardinality(at)
      Place(k) ==
        IF k = 0 THEN 0
        ELSE IF k = n + 1 THEN Len(s) + 1
        ELSE CHOOSE i \in at : Cardinality({j \in at : j <= i}) = k
  IN [k \in 1..(n + 1) |-> SubSeq(s, Place(k - 1) + 1, Place(k) - 1)]

\* Array.prototype.join(sep)
Join(parts, sep) ==
  Concat([k \in DOMAIN parts |-> IF k = 1 THEN parts[k] ELSE sep \o parts[k]],
         1, Len(parts))

\* Compact with a bug: a string that has been kept before is dropped too (the
\* array is made unique)
RECURSIVE CompactUnique(_)
CompactUnique(parts) ==
  IF parts = <<>> THEN <<>>
  ELSE LET rest == CompactUnique(Front(parts))
       IN IF Last(parts) = <<>> \/ \E k \in DOMAIN rest : rest[k] = Last(parts)
          THEN rest
          ELSE Append(rest, Last(parts))

\* _.compact on an array of strings: the falsy (empty) strings are dropped
Compact(parts) == KeepAt(parts, {k \in DOMAIN parts : parts[k] # <<>>})

\* String.prototype.repeat(n) for n >= 0 (a negative n throws: see PadCount)
Repeat(c, n) == [i \in 1..n |-> c]

\* -------------------------------------------------------------- strip-ansi
\* a styling sequence ESC [ digits m lies from place i to place e of s
IsAnsiAt(s, i, e) ==
  /\ e > i + 1
  /\ s[i] = ESC
  /\ s[i + 1] = "["
  /\ s[e] = "m"
  /\ \A k \in (i + 2)..(e - 1) : s[k] \in Digits

\* the places of s that belong to a styling sequence
Styled(s) ==
  {j \in DOMAIN s : \E i \in 1..j, e \in j..Len(s) : IsAnsiAt(s, i, e)}

\* str.replace(ansiRegex(), '')
StripAnsi(s) == KeepAt(s, DOMAIN s \ Styled(s))

\* ------------------------------------------------------------ string-width
\* strip the styling, then count the characters that are not control characters:
\* the columns of the places in keep
SumWidths(s, keep) ==
  Cardinality({i \in keep : CharWidth(s[i]) = 1})
    + Len(TplText) * Cardinality({i \in keep : s[i] = TPL})

\* a value that is not a string has width 0
StringWidth(s) ==
  IF s = Absent THEN 0 ELSE SumWidths(s, DOMAIN s \ Styled(s))

\* ------------------------------------------------------------- widest-line
MaxWidthOf(lines) ==
  IF lines = <<>> THEN 0
  ELSE Greatest({StringWidth(lines[k]) : k \in DOMAIN lines})

WidestLine(s) == MaxWidthOf(Split(s, NL))

\* ----------------------------------------------------------- indent-string
\* every line that is not made of white space only gets count spaces in front
IsBlank(s) == \A i \in DOMAIN s : IsWhitespace(s[i])

IndentLine(line, count) ==
  IF IsBlank(line) THEN line ELSE Repeat(SP, count) \o line

Indent(s, count) ==
  Only({Join([i \in DOMAIN lines |-> IndentLine(lines[i], count)], << NL >>) :
          lines \in {Split(str, NL) : str \in {s}}})

\* ---------------------------------------------------------------- wrap-ansi
\* wrap(str, cols, {hard: true, trim: false}), the only options the program uses.

\* ESCAPE_CODES: the code that closes a styling code, 0 when there is none
EscapeClose(code) ==
  CASE code \in {1, 2} -> 22
    [] code \in {3, 4, 7, 8, 9} -> code + 20
    [] code \in 30..37 \/ code = 90 -> 39
    [] code \in 40..47 -> 49
    [] OTHER -> 0

RECURSIVE NumberChars(_)
NumberChars(n) ==
  IF n < 10 THEN << CHOOSE c \in Digits : DigitValue(c) = n >>
  ELSE NumberChars(n \div 10) \o << CHOOSE c \in Digits : DigitValue(c) = n % 10 >>

\* wrapAnsi(code): ESC [ code m
AnsiCode(code) == << ESC, "[" >> \o NumberChars(code) \o << "m" >>

\* wrapWord's loop keeps rows, visible and insideEscape; stringWidth(char) of
\* one character is CharWidth(char).  The second half of the turn for char,
\* which has been put into rows: an escape sequence takes no column, and a row
\* that has become full is followed by a new one unless char is the last of
\* the word.
WrapCounted(rows, visible, insideEscape, char, last, cols) ==
  IF insideEscape \/ char = ESC
  THEN [rows |-> rows, visible |-> visible, insideEscape |-> char # "m"]
  ELSE IF visible + CharWidth(char) = cols /\ ~last
  THEN [rows |-> Append(rows, <<>>), visible |-> 0, insideEscape |-> FALSE]
  ELSE [rows |-> rows, visible |-> visible + CharWidth(char),
        insideEscape |-> FALSE]

\* the turn for char: it goes to the end of the last row when it fits and it
\* starts a new row when it does not
WrapChar(st, char, last, cols) ==
  IF st.visible + CharWidth(char) <= cols
  THEN WrapCounted(AppendToLast(st.rows, << char >>), st.visible,
                   st.insideEscape, char, last, cols)
  ELSE WrapCounted(Append(st.rows, << char >>), 0, st.insideEscape, char,
                   last, cols)

\* rows, visible and insideEscape after the turns for the first i characters,
\* as the set of that one state; start is the state before the loop
RECURSIVE WrapWordUpTo(_, _, _, _)
WrapWordUpTo(start, word, cols, i) ==
  IF i = 0 THEN {start}
  ELSE {WrapChar(st, word[i], i = Len(word), cols) :
          st \in WrapWordUpTo(start, word, cols, i - 1)}

\* what wrapWord does after its loop: a last row that holds no visible
\* character is put at the end of the row before it
WrapWordEnd(rows, visible) ==
  IF visible = 0 /\ Len(Last(rows)) > 0 /\ Len(rows) > 1
  THEN AppendToLast(Front(rows), Last(rows))
  ELSE rows

\* wrapWord's loop and what follows it
WrapWordFrom(start, word, cols) ==
  Only({WrapWordEnd(st.rows, st.visible) :
          st \in WrapWordUpTo(start, word, cols, Len(word))})

\* wrapWord: a word wider than cols is cut, row by row
WrapWord(rows, word, cols) ==
  Only({WrapWordFrom(start, word, cols) :
          start \in {[rows |-> rows,
                      visible |-> StringWidth(StripAnsi(Last(rows))),
                      insideEscape |-> FALSE]}})

\* the second half of a turn of exec's loop over the words: a word wider than
\* cols is cut by wrapWord, and a word that does not fit starts a new row
ExecSpaced(rows, rowLength, word, cols) ==
  IF StringWidth(word) > cols
  THEN WrapWord(IF rowLength > 0 THEN Append(rows, <<>>) ELSE rows, word, cols)
  ELSE AppendToLast(IF rowLength + StringWidth(word) > cols /\ rowLength > 0
                    THEN Append(rows, <<>>) ELSE rows,
                    word)

\* one turn of that loop: a space goes in front of a word that is empty or
\* follows something on its row
ExecWord(rows, word, cols) ==
  IF StringWidth(Last(rows)) > 0 \/ word = <<>>
  THEN ExecSpaced(AppendToLast(rows, << SP >>), StringWidth(Last(rows)) + 1,
                  word, cols)
  ELSE ExecSpaced(rows, 0, word, cols)

\* rows after the turns for the first i words, as the set of that one value
RECURSIVE ExecWordsUpTo(_, _, _)
ExecWordsUpTo(words, cols, i) ==
  IF i = 0 THEN {<< <<>> >>}
  ELSE {ExecWord(rows, word, cols) :
          rows \in ExecWordsUpTo(words, cols, i - 1), word \in {words[i]}}

\* parseFloat(/\d[^m]*/.exec(pre.slice(i, i + 4))): the number that starts at the
\* first digit of the four characters from i on, -1 for NaN
RECURSIVE ParseDigits(_, _, _, _)
ParseDigits(s, i, to, acc) ==
  IF i <= to /\ i <= Len(s) /\ s[i] \in Digits
  THEN ParseDigits(s, i + 1, to, 10 * acc + DigitValue(s[i]))
  ELSE acc

EscapeCodeAt(pre, i) ==
  LET to == i + 3
      ds == {j \in i..to : j <= Len(pre) /\ pre[j] \in Digits}
  IN IF ds = {} THEN -1
     ELSE LET first == CHOOSE j \in ds : \A k \in ds : j <= k
          IN ParseDigits(pre, first, to, 0)

\* escapeCode after the turn for pre[i] of exec's last loop: it is set at every
\* ESC (to undefined when the code parsed is 39) and kept otherwise, so it is
\* what the last ESC up to i set; 0 stands for undefined and null
EscapeCodeAfter(pre, i) ==
  LET escapes == {j \in 1..i : pre[j] = ESC}
  IN IF escapes = {} THEN 0
     ELSE IF EscapeCodeAt(pre, Greatest(escapes)) = 39 THEN 0
     ELSE EscapeCodeAt(pre, Greatest(escapes))

\* what the turn for pre[i] adds to ret: the character, and the closing code
\* before a line break or the opening code after it when a style is open
RestyledChar(pre, i, ec) ==
  << pre[i] >>
    \o (IF ec > 0 /\ EscapeClose(ec) > 0
        THEN IF i + 1 <= Len(pre) /\ pre[i + 1] = NL
             THEN AnsiCode(EscapeClose(ec))
             ELSE IF pre[i] = NL THEN AnsiCode(ec) ELSE <<>>
        ELSE <<>>)

\* exec's last loop: a style that is open at a line break is closed before it
\* and opened again after it
Restyle(pre) ==
  Concat([i \in DOMAIN pre |-> RestyledChar(pre, i, EscapeCodeAfter(pre, i))],
         1, Len(pre))

Exec(str, cols) ==
  IF Trim(str) = <<>> THEN str
  ELSE Only({Restyle(pre) :
               pre \in {Join(rows, << NL >>) :
                          rows \in ExecWordsUpTo(Split(str, SP), cols,
                                                 Len(Split(str, SP)))}})

Wrap(str, cols) ==
  Only({Join([i \in DOMAIN lines |-> Exec(lines[i], c)], << NL >>) :
          lines \in {Split(str, NL)}, c \in {cols}})

\* ------------------------------------------------------------------ lodash
\* _.template(template || '')({config}): every interpolation of config.bin is
\* replaced by its value; undefined renders to the empty string
Substitute(s) ==
  Concat([k \in DOMAIN s |-> IF s[k] = TPL THEN ConfigBin ELSE << s[k] >>],
         1, Len(s))

\* renderTemplate with a bug: undefined is rendered as its text
renderTemplateOfText(template) == Substitute(template)

renderTemplate(template) ==
  IF template = Absent THEN <<>> ELSE Substitute(template)

UpperChar(c) ==
  CASE c = "a" -> "A" [] c = "b" -> "B" [] c = "c" -> "C" [] c = "l" -> "L"
    [] c = "i" -> "I" [] c = "m" -> "M" [] c = "t" -> "T" [] c = "u" -> "U"
    [] c = "v" -> "V" [] OTHER -> c

LowerChar(c) ==
  CASE c = "A" -> "a" [] c = "B" -> "b" [] c = "C" -> "c" [] c = "L" -> "l"
    [] c = "I" -> "i" [] c = "M" -> "m" [] c = "T" -> "t" [] c = "U" -> "u"
    [] c = "V" -> "v" [] OTHER -> c

\* String.prototype.toUpperCase
ToUpperCase(s) == [i \in DOMAIN s |-> UpperChar(s[i])]

\* _.capitalize: the first character upper case, the rest lower case
Capitalize(s) ==
  [i \in DOMAIN s |-> IF i = 1 THEN UpperChar(s[i]) ELSE LowerChar(s[i])]

\* chalk.bold: the styling is added only when the terminal supports colour
Bold(s, colour) ==
  IF colour THEN AnsiCode(1) \o s \o AnsiCode(22) ELSE s

\* --------------------------------------------------------- Help.renderList
\* input.map(([left, right]) => [renderTemplate(left), renderTemplate(right)])
TemplatedRows(input) ==
  [i \in DOMAIN input |->
     << renderTemplate(input[i][1]), renderTemplate(input[i][2]) >>]

MaybeStrip(s, opts) == IF opts.stripAnsi THEN StripAnsi(s) ELSE s

\* one turn of renderMultiline's loop: what the row adds to output
MultilineRow(left, right, opts) ==
  IF left = <<>> /\ right = <<>> THEN <<>>
  ELSE (IF left # <<>>
        THEN Wrap(Trim(MaybeStrip(left, opts)), opts.maxWidth)
        ELSE <<>>)
       \o (IF right # <<>>
           THEN << NL >>
                \o Indent(Wrap(Trim(MaybeStrip(right, opts)),
                               opts.maxWidth - MultilineMargin),
                          MultilineIndent)
           ELSE <<>>)
       \o << NL, NL >>

MultilineOutput(rows, opts) ==
  Concat([i \in DOMAIN rows |-> MultilineRow(rows[i][1], rows[i][2], opts)],
         1, Len(rows))

\* renderMultiline, over the templated rows
renderMultiline(rows, opts) ==
  Only({Trim(output) : output \in {MultilineOutput(rows, opts)}})

\* widestLine(input.map(i => i[0]).join('\n'))
MaxLength(rows) ==
  WidestLine(Join([i \in DOMAIN rows |-> rows[i][1]], << NL >>))

\* WrappedLines with a bug: the gap of 2 columns is not taken off the width
WrappedLinesNoGap(right, maxLength, opts) ==
  Only({[i \in DOMAIN parts |-> Trim(parts[i])] :
          parts \in {Split(wrapped, NL) :
                       wrapped \in {Wrap(Trim(MaybeStrip(right, opts)),
                                         opts.maxWidth - maxLength)}}})

\* right.split('\n').map(s => s.trim()) of the wrapped description
WrappedLines(right, maxLength, opts) ==
  Only({[i \in DOMAIN parts |-> Trim(parts[i])] :
          parts \in {Split(wrapped, NL) :
                       wrapped \in {Wrap(Trim(MaybeStrip(right, opts)),
                                         opts.maxWidth - (maxLength + ColumnGap))}}})

\* the argument of ' '.repeat: maxLength - width(cur) + 2
PadCount(label, maxLength) == maxLength - StringWidth(label) + ColumnGap

\* TooManyLines with a bug: the threshold is one line too high
TooManyLinesLate(lines) == Len(lines) > MultilineThreshold + 1

\* if (lines.length > 4) return renderMultiline()
TooManyLines(lines) == Len(lines) > MultilineThreshold

\* indent(lines.join('\n'), maxLength + 2)
IndentLines(lines, maxLength) ==
  Indent(Join(lines, << NL >>), maxLength + ColumnGap)

\* WideSpacer with a bug: the spacer is never widened
NarrowSpacer == << NL >>

\* the spacer after a row whose description took more than one line
WideSpacer == << NL, NL >>

\* if (cur) { output += spacer; output += cur }
Flush(output, spacer, cur) ==
  IF cur # <<>> THEN output \o spacer \o cur ELSE output

\* The compact loop keeps output, spacer and cur; exit tells how the loop was
\* left: "" while it goes on, "multiline" by return renderMultiline() and
\* "throw" by the RangeError of a negative repeat count.
CompactStart ==
  [output |-> <<>>, spacer |-> << NL >>, cur |-> <<>>, exit |-> ""]

\* the end of the turn for a row whose description wrapped to parts
CompactRow(output, spacer, cur, parts, maxLength) ==
  IF Len(Tail(parts)) = 0
  THEN [output |-> output, spacer |-> spacer, cur |-> cur \o Head(parts),
        exit |-> ""]
  ELSE IF TooManyLines(Tail(parts))
  THEN [output |-> output, spacer |-> spacer, cur |-> cur \o Head(parts),
        exit |-> "multiline"]
  ELSE [output |-> output, spacer |-> WideSpacer,
        cur |-> cur \o Head(parts) \o << NL >>
                  \o IndentLines(Tail(parts), maxLength),
        exit |-> ""]

\* the turn for a row, after the row before it has been flushed and cur has
\* been set to the label
CompactStep(output, spacer, cur, right, maxLength, opts) ==
  IF right = <<>>
  THEN [output |-> output, spacer |-> spacer, cur |-> Trim(cur), exit |-> ""]
  ELSE IF PadCount(cur, maxLength) < 0
  THEN [output |-> output, spacer |-> spacer, cur |-> cur, exit |-> "throw"]
  ELSE Only({CompactRow(output, spacer,
                        cur \o Repeat(SP, PadCount(cur, maxLength)), parts,
                        maxLength) :
               parts \in {WrappedLines(right, maxLength, opts)}})

\* one turn of the loop, for the row [left, right]
CompactTurn(st, left, right, maxLength, opts) ==
  IF st.exit # "" THEN st
  ELSE CompactStep(Flush(st.output, st.spacer, st.cur), st.spacer,
                   MaybeStrip(left, opts), right, maxLength, opts)

\* the loop's state after the turns for the first i rows, as the set of that
\* one state
RECURSIVE CompactUpTo(_, _, _, _)
CompactUpTo(rows, opts, maxLength, i) ==
  IF i = 0 THEN {CompactStart}
  ELSE {CompactTurn(st, rows[i][1], rows[i][2], maxLength, opts) :
          st \in CompactUpTo(rows, opts, maxLength, i - 1)}

\* what renderList returns once the loop has been left
CompactEnd(st, rows, opts) ==
  IF st.exit = "throw" THEN ERR
  ELSE IF st.exit = "multiline" THEN renderMultiline(rows, opts)
  ELSE Trim(Flush(st.output, st.spacer, st.cur))

\* renderList over the templated rows
RenderRows(rows, opts) ==
  IF opts.multiline THEN renderMultiline(rows, opts)
  ELSE Only({CompactEnd(st, rows, opts) :
               st \in CompactUpTo(rows, opts, MaxLength(rows), Len(rows))})

renderList(input, opts) ==
  IF Len(input) = 0 THEN <<>>
  ELSE Only({RenderRows(rows, opts) : rows \in {TemplatedRows(input)}})

\* ----------------------------------------------------- Help.renderMarkdown
\* A section body is a string (shape "string"), an array of strings ("lines")
\* or an array of [label, description] pairs ("list").
BodyLength(body) == Len(body.val)

\* _.castArray(s.body).join('\n')
ProseOf(body) ==
  IF body.shape = "lines" THEN Join(body.val, << NL >>) ELSE body.val

MarkdownListOpts ==
  [maxWidth |-> MarkdownMaxWidth - SectionMargin, multiline |-> FALSE,
   stripAnsi |-> TRUE]

\* U+0060, the character of a Markdown fence
Grave == "GRAVE"

Fence == << Grave, Grave, Grave >>

ShSession == << "s", "h", "-", "s", "e", "s", "s", "i", "o", "n" >>

\* the rendered list between two fences
FencedList(list) ==
  IF list = ERR THEN ERR
  ELSE Fence \o << NL >> \o list \o << NL >> \o Fence

\* what follows body = '\n' for a body that is not empty
MarkdownInner(body) ==
  IF body.shape = "list"
  THEN Only({FencedList(list) :
               list \in {renderList(body.val, MarkdownListOpts)}})
  ELSE Wrap(StripAnsi(renderTemplate(ProseOf(body))),
            MarkdownMaxWidth - SectionMargin)

\* if (s.type === 'code') the body is put in a sh-session fence
TypedBody(type, inner) ==
  IF inner = ERR THEN ERR
  ELSE IF type = "code"
  THEN << NL >> \o Fence \o ShSession \o << NL >> \o inner \o << NL >> \o Fence
  ELSE << NL >> \o inner

\* the body of one section, before the heading is put in front
MarkdownBody(s) ==
  Only({TypedBody(s.type, inner) :
          inner \in {IF BodyLength(s.body) = 0 THEN <<>>
                     ELSE MarkdownInner(s.body)}})

\* the heading between two pairs of asterisks, after _.capitalize
MarkdownHeading(heading) == << "*", "*" >> \o Capitalize(heading) \o << "*", "*" >>

\* _([heading, body]).compact().join('\n') + '\n'
HeadedBody(heading, body) ==
  IF body = ERR THEN ERR
  ELSE Join(Compact(<< heading, body >>), << NL >>) \o << NL >>

MarkdownSection(s) ==
  Only({HeadedBody(MarkdownHeading(s.heading), body) :
          body \in {MarkdownBody(s)}})

\* '-'.repeat(width(article.title))
TitleUnderline(title) == Repeat("-", StringWidth(title))

\* ...article.sections, in the order the article gives them
SectionsOf(article) == article.sections

\* a section that throws makes the whole call throw
JoinedUnlessThrown(rendered, joined) ==
  IF \E i \in DOMAIN rendered : rendered[i] = ERR THEN ERR ELSE joined

MarkdownParts(title, rendered) ==
  JoinedUnlessThrown(rendered,
    Trim(Join(<< StripAnsi(renderTemplate(title)), TitleUnderline(title),
                 <<>> >> \o rendered,
              << NL >>)))

renderMarkdown(article) ==
  MarkdownParts(article.title,
                [i \in DOMAIN SectionsOf(article) |->
                   MarkdownSection(SectionsOf(article)[i])])

\* ------------------------------------------------------- Help.renderScreen
ScreenListOpts(stdtermwidth) ==
  [maxWidth |-> stdtermwidth - SectionMargin, multiline |-> FALSE,
   stripAnsi |-> FALSE]

ScreenBody(s, stdtermwidth) ==
  IF BodyLength(s.body) = 0 THEN <<>>
  ELSE IF s.body.shape = "list"
  THEN renderList(s.body.val, ScreenListOpts(stdtermwidth))
  ELSE Wrap(renderTemplate(ProseOf(s.body)), stdtermwidth - SectionMargin)

\* _([bold(heading), indent(body, 2)]).compact().join('\n')
ScreenHeadedBody(heading, body) ==
  IF body = ERR THEN ERR
  ELSE Join(Compact(<< heading, Indent(body, SectionMargin) >>), << NL >>)

ScreenSection(s, stdtermwidth, colour) ==
  Only({ScreenHeadedBody(Bold(ToUpperCase(s.heading), colour), body) :
          body \in {ScreenBody(s, stdtermwidth)}})

ScreenParts(title, rendered) ==
  JoinedUnlessThrown(rendered,
    Join(Compact(<< renderTemplate(title) >> \o rendered), << NL, NL >>))

renderScreen(article, stdtermwidth, colour) ==
  ScreenParts(article.title,
              [i \in DOMAIN SectionsOf(article) |->
                 ScreenSection(SectionsOf(article)[i], stdtermwidth, colour)])

\* Help.render: the format picks the renderer; man and no format are the screen
render(article, format, stdtermwidth, colour) ==
  IF format = "markdown" THEN renderMarkdown(article)
  ELSE renderScreen(article, stdtermwidth, colour)

\* ------------------------------------------------------------------ inputs
Bold1 == << ESC, "[", "1", "m" >>
Bold0 == << ESC, "[", "2", "2", "m" >>

\* the rows a list is made of: [label, description]
RowNothing == << Absent, <<>> >>
RowLabelOnly == << << TPL >>, Absent >>
RowNoLabel == << Absent, << "x", SP, "y" >> >>
RowSix == << << "a", "b" >>, << "a", "a", "a", "a", "a", "a" >> >>
RowFive == << << "a" >>, << "a", "a", "a", "a", "a" >> >>
RowTwoLineLabel == << << "a", "b", "c", NL, "d", "e", "f" >>, << "b" >> >>
RowStyled ==
  << Bold1 \o << "a" >> \o Bold0,
     << "a", SP >> \o Bold1 \o << "b", SP, "c" >> \o Bold0 >>
RowBlankDescription == << << "a", "b" >>, << SP >> >>

RowPool ==
  {RowNothing, RowLabelOnly, RowNoLabel, RowSix, RowFive, RowTwoLineLabel,
   RowStyled, RowBlankDescription}

SeqsUpTo(S, n) == UNION {[1..k -> S] : k \in 0..n}

RowLists == SeqsUpTo(RowPool, MaxRows)

Widths == (0 - 1)..MaxWidth

ListOpts == [maxWidth : Widths, multiline : BOOLEAN, stripAnsi : BOOLEAN]

StringBody(v) == [shape |-> "string", val |-> v]
LinesBody(v) == [shape |-> "lines", val |-> v]
ListBody(v) == [shape |-> "list", val |-> v]

HeadingU == << "u" >>
HeadingV == << "v" >>
HeadingStyled == Bold1 \o << "u" >> \o Bold0

SectionPool ==
  {[heading |-> HeadingU, type |-> "none", body |-> StringBody(<< "a", SP, "b" >>)],
   [heading |-> HeadingV, type |-> "code",
    body |-> LinesBody(<< << "a" >>, << TPL >> >>)],
   [heading |-> HeadingU, type |-> "plain",
    body |-> ListBody(<< RowNoLabel, RowLabelOnly >>)],
   [heading |-> HeadingV, type |-> "none", body |-> StringBody(<<>>)],
   [heading |-> HeadingStyled, type |-> "none",
    body |-> StringBody(Bold1 \o << "a" >> \o Bold0)],
   [heading |-> HeadingV, type |-> "none",
    body |-> ListBody(<< RowTwoLineLabel >>)],
   [heading |-> HeadingU, type |-> "code", body |-> ListBody(<< RowStyled >>)]}

TitlePool == {Absent, << "t" >>, << TPL >>, Bold1 \o << "t" >> \o Bold0}

Articles == [title : TitlePool, sections : SeqsUpTo(SectionPool, MaxSections)]

Formats == {"markdown", "screen", "man", "none"}

\* screen.stdtermwidth
TermWidths == {12, 80}

NoArticle == [title |-> Absent, sections |-> <<>>]

NoOpts == [maxWidth |-> 0, multiline |-> FALSE, stripAnsi |-> FALSE]

\* ------------------------------------------------------------------- state
VARIABLES
  input,         \* renderList's rows
  opts,          \* renderList's options
  article,       \* the article handed to render
  format,        \* this.opts.format
  stdtermwidth,  \* screen.stdtermwidth
  colour,        \* whether chalk styles its output
  pc,            \* "ready" before the call, "done" after it
  result         \* the string the call returned, ERR when it threw

vars == << input, opts, article, format, stdtermwidth, colour, pc, result >>

\* ------------------------------------------------- the layout engine alone
Init ==
  /\ input \in RowLists
  /\ opts \in ListOpts
  /\ article = NoArticle
  /\ format = "none"
  /\ stdtermwidth \in {80}
  /\ colour = FALSE
  /\ pc = "ready"
  /\ result = <<>>

\* renderList(input, {maxWidth, stripAnsi}): compact mode
RenderListCompact ==
  /\ pc = "ready"
  /\ ~opts.multiline
  /\ result' = renderList(input, opts)
  /\ pc' = "done"
  /\ UNCHANGED << input, opts, article, format, stdtermwidth, colour >>

\* renderList(input, {maxWidth, multiline: true, stripAnsi}): stacked mode
RenderListMultiline ==
  /\ pc = "ready"
  /\ opts.multiline
  /\ result' = renderList(input, opts)
  /\ pc' = "done"
  /\ UNCHANGED << input, opts, article, format, stdtermwidth, colour >>

Next == RenderListCompact \/ RenderListMultiline

Spec == Init /\ [][Next]_vars

\* ----------------------------------------------------- the article renderer
InitArticle ==
  /\ input = <<>>
  /\ opts = NoOpts
  /\ article \in Articles
  /\ format \in Formats
  /\ stdtermwidth \in TermWidths
  /\ colour \in BOOLEAN
  /\ pc = "ready"
  /\ result = <<>>

\* render(article) when the format is markdown
RenderMarkdown ==
  /\ pc = "ready"
  /\ format = "markdown"
  /\ result' = render(article, format, stdtermwidth, colour)
  /\ pc' = "done"
  /\ UNCHANGED << input, opts, article, format, stdtermwidth, colour >>

\* render(article) for every other format
RenderScreen ==
  /\ pc = "ready"
  /\ format # "markdown"
  /\ result' = render(article, format, stdtermwidth, colour)
  /\ pc' = "done"
  /\ UNCHANGED << input, opts, article, format, stdtermwidth, colour >>

NextArticle == RenderMarkdown \/ RenderScreen

SpecArticle == InitArticle /\ [][NextArticle]_vars

\* ------------------------------------------------------ what the claims use
Done == pc = "done"

CompactCall == Done /\ ~opts.multiline

StackedOpts == [opts EXCEPT !.multiline = TRUE]

\* the rows after template substitution, and the label column's width
Rows == TemplatedRows(input)

LabelColumnWidth == MaxLength(Rows)

HasDescription(i) == Rows[i][2] # <<>>

LabelOf(i) == MaybeStrip(Rows[i][1], opts)

\* the lines row i's description wraps to at maxWidth - (labelColumnWidth + 2)
DescriptionLines(i) == WrappedLines(Rows[i][2], LabelColumnWidth, opts)

\* the compact rendering of a list is abandoned at row i
Overlong(i, limit) == HasDescription(i) /\ Len(DescriptionLines(i)) > limit

\* row i asks for a negative number of padding spaces
NegativePad(i) ==
  HasDescription(i) /\ PadCount(LabelOf(i), LabelColumnWidth) < 0

\* the call returned a compact rendering: it did not throw and no row made it
\* fall back to stacked mode
CompactResult ==
  /\ CompactCall
  /\ result # ERR
  /\ \A i \in DOMAIN Rows : ~Overlong(i, MultilineThreshold + 1)

\* s occurs in t as a run of consecutive elements
Occurs(s, t) ==
  \E p \in 0..(Len(t) - Len(s)) : \A k \in DOMAIN s : t[p + k] = s[k]

\* ---- C1 ----
\* C1 as stated: in compact mode, when some row's description wraps to more
\* than 4 lines, the returned string is the one stacked mode returns.  (Calls
\* that throw are left out, so that what refutes it is the threshold alone.)
C1_FallbackAboveFourLines ==
  (CompactCall /\ result # ERR
     /\ \E i \in DOMAIN Rows : Overlong(i, MultilineThreshold))
  => result = renderList(input, StackedOpts)

\* C1 amended: in compact mode, when some row's description wraps to more than
\* 5 lines (more than 4 lines after its first), nothing of the compact
\* rendering is returned: the call returns exactly the string stacked mode
\* returns, unless that row or a row before it has a label whose total width
\* exceeds labelColumnWidth + 2, in which case the call throws.
C1_FallbackAboveFiveLines ==
  (CompactCall /\ \E i \in DOMAIN Rows : Overlong(i, MultilineThreshold + 1))
  => LET k == CHOOSE i \in DOMAIN Rows :
                /\ Overlong(i, MultilineThreshold + 1)
                /\ \A j \in 1..(i - 1) : ~Overlong(j, MultilineThreshold + 1)
     IN IF \E j \in 1..k : NegativePad(j)
        THEN result = ERR
        ELSE result = renderList(input, StackedOpts)

\* a two-row list whose second row wraps to six lines came back stacked
C1_Witness ==
  /\ CompactCall
  /\ opts.maxWidth > LabelColumnWidth + ColumnGap
  /\ Len(input) = 2
  /\ input[1] = RowLabelOnly
  /\ Len(DescriptionLines(2)) = MultilineThreshold + 2
  /\ result = renderList(input, StackedOpts)
  /\ result # <<>>

\* ---- C2 ----
IsNothing(row) == row[1] \in {Absent, <<>>} /\ row[2] \in {Absent, <<>>}

RECURSIVE WithoutNothing(_)
WithoutNothing(rows) ==
  IF rows = <<>> THEN <<>>
  ELSE IF IsNothing(Head(rows)) THEN WithoutNothing(Tail(rows))
  ELSE << Head(rows) >> \o WithoutNothing(Tail(rows))

OneLineRow(i) ==
  LabelOf(i)
    \o Repeat(SP, PadCount(LabelOf(i), LabelColumnWidth))
    \o Head(DescriptionLines(i))

OneLine(i) == HasDescription(i) /\ Len(DescriptionLines(i)) = 1

\* C3 as stated: in a compact rendering, a row whose description fits on one
\* wrapped line is never wider than maxWidth, whatever maxWidth is.  (Stated
\* for a positive maxWidth and a row that is in the returned string with its
\* padding.)
C3_OneLineRowFits ==
  (CompactResult /\ opts.maxWidth > 0) =>
    \A i \in DOMAIN Rows :
      (OneLine(i) /\ Occurs(OneLineRow(i), result))
        => WidestLine(OneLineRow(i)) <= opts.maxWidth

\* C3 amended: the same, for every maxWidth that leaves at least one column
\* for the description (maxWidth > labelColumnWidth + 2); the row is in the
\* returned string.
C3_OneLineRowFitsWhenColumnLeft ==
  (CompactResult /\ opts.maxWidth > LabelColumnWidth + ColumnGap) =>
    \A i \in DOMAIN Rows :
      OneLine(i) =>
        /\ WidestLine(OneLineRow(i)) <= opts.maxWidth
        /\ Occurs(Trim(OneLineRow(i)), result)

\* a row whose description fills its column exactly
C3_Witness ==
  /\ CompactResult
  /\ opts.maxWidth > LabelColumnWidth + ColumnGap
  /\ \E i \in DOMAIN Rows :
       /\ OneLine(i)
       /\ Rows[i][1] # <<>>
       /\ WidestLine(OneLineRow(i)) = opts.maxWidth

\* ---- C6 ----
\* the words of a description: what is left between its white space
Words(str) ==
  LET lines == Split(str, NL)
  IN UNION {{w \in {Split(lines[i], SP)[j] : j \in DOMAIN Split(lines[i], SP)} :
               w # <<>>} : i \in DOMAIN lines}

StartsIndented(line) ==
  /\ Len(line) > MultilineIndent
  /\ \A k \in 1..MultilineIndent : line[k] = SP

\* C6: in stacked mode no description line, its indent of 4 columns included,
\* is wider than maxWidth, for descriptions whose words each fit in
\* maxWidth - 4 columns.
C6_StackedDescriptionFits ==
  (Done /\ opts.multiline /\ result # ERR
     /\ \A i \in DOMAIN Rows :
          \A w \in Words(MaybeStrip(Rows[i][2], opts)) :
            StringWidth(w) <= opts.maxWidth - MultilineIndent)
  => LET lines == Split(result, NL)
     IN \A k \in DOMAIN lines :
          StartsIndented(lines[k]) => StringWidth(lines[k]) <= opts.maxWidth

\* ---- C7 ----
\* row i as the claim lays it out: the label padded to labelColumnWidth + 2,
\* the first line of the description, then every further line behind
\* labelColumnWidth + 2 spaces
AlignedRow(i) ==
  LET parts == DescriptionLines(i)
      column == LabelColumnWidth + ColumnGap
  IN Join(<< LabelOf(i) \o Repeat(SP, column - StringWidth(LabelOf(i)))
               \o Head(parts) >>
          \o [k \in 1..(Len(parts) - 1) |-> Repeat(SP, column) \o parts[k + 1]],
          << NL >>)

\* C7: in a compact rendering every row that has a description is in the
\* returned string with its description in column labelColumnWidth + 2, the
\* first row and rows without a label included.  (Stated for descriptions none
\* of whose wrapped lines is empty, and labels of one line.)
C7_DescriptionColumn ==
  CompactResult =>
    \A i \in DOMAIN Rows :
      (/\ HasDescription(i)
       /\ NL \notin {LabelOf(i)[k] : k \in DOMAIN LabelOf(i)}
       /\ \A k \in DOMAIN DescriptionLines(i) : DescriptionLines(i)[k] # <<>>)
      => Occurs(AlignedRow(i), result)

\* ---- C8 ----
\* C8: renderList returns a string for every row list and every maxWidth: it
\* never throws.
C8_NeverThrows == Done => result # ERR

\* ---- C10 ----
\* the text of row i in a compact rendering (the loop's cur)
RowText(i) ==
  IF ~HasDescription(i) THEN Trim(LabelOf(i))
  ELSE LET parts == DescriptionLines(i)
           head == LabelOf(i)
                     \o Repeat(SP, PadCount(LabelOf(i), LabelColumnWidth))
                     \o Head(parts)
       IN IF Len(parts) = 1 THEN head
          ELSE head \o << NL >> \o IndentLines(Tail(parts), LabelColumnWidth)

Emitted(i) == RowText(i) # <<>>

ManyLines(i) == HasDescription(i) /\ Len(DescriptionLines(i)) > 1

\* the rows, each after the separator Sep gives it, then trimmed
RECURSIVE Separated(_, _)
Separated(Sep(_), i) ==
  IF i > Len(Rows) THEN <<>>
  ELSE (IF Emitted(i) THEN Sep(i) \o RowText(i) ELSE <<>>)
       \o Separated(Sep, i + 1)

\* the emitted row before row i, 0 when there is none
EarlierRow(i) ==
  LET before == {j \in 1..(i - 1) : Emitted(j)}
  IN IF before = {} THEN 0 ELSE CHOOSE j \in before : \A k \in before : k <= j

SeparatorByEarlierRow(i) ==
  IF EarlierRow(i) # 0 /\ HasDescription(EarlierRow(i))
  THEN << NL, NL >> ELSE << NL >>

SeparatorByWrappedRows(i) ==
  IF \E j \in 1..i : ManyLines(j) THEN << NL, NL >> ELSE << NL >>

Markdown == Done /\ format = "markdown" /\ result # ERR

\* C4: the string the Markdown renderer returns holds no styling sequence,
\* whatever the title, the headings and the bodies hold.
C4_MarkdownHasNoStyling ==
  Markdown => \A k \in DOMAIN result : result[k] # ESC

\* ---- C5 ----
\* C5: in Markdown output the second line is made of as many dashes as the
\* title line above it, as rendered, is wide.
C5_UnderlineMatchesTitle ==
  (Markdown /\ article.title # Absent) =>
    LET lines == Split(result, NL)
    IN /\ Len(lines) >= 2
       /\ lines[2] = Repeat("-", StringWidth(lines[1]))

\* ---- C9 ----
HeadingLetters == {"u", "U", "v", "V"}

\* the heading letters of a string, in order, in lower case
IsHeadingLetter(c) == c \in HeadingLetters

HeadingTrace(str) ==
  LET letters == SelectSeq(str, IsHeadingLetter)
  IN [k \in DOMAIN letters |-> LowerChar(letters[k])]

\* the heading letters of the article's sections, in the article's order
RECURSIVE HeadingsInOrder(_)
HeadingsInOrder(sections) ==
  IF sections = <<>> THEN <<>>
  ELSE HeadingTrace(Head(sections).heading) \o HeadingsInOrder(Tail(sections))

\* C9: for both targets, whenever render returns, the headings of the sections
\* are in the output once each and in the order of article.sections: no section
\* is reordered, dropped or merged with an identical one.  (Only headings hold
\* the letters u and v.)
C9_SectionsInOrder ==
  (Done /\ result # ERR) =>
    HeadingTrace(result) = HeadingsInOrder(article.sections)

\* two identical sections, rendered for the screen
C9_Witness ==
  /\ Done
  /\ format = "screen"
  /\ result # ERR
  /\ Len(article.sections) = 2
  /\ article.sections[1] = article.sections[2]
  /\ article.sections[1].body.shape = "list"

====
